---- MODULE Spec2Model ----
(***************************************************************************)
(* Model of the credential/exporter REST API of go/cmd/graphql/main.go:    *)
(* the write handlers (writeCredentials, writeExporters), the validation   *)
(* helpers they call, and the store they talk to.                          *)
(***************************************************************************)
EXTENDS Integers, Sequences, FiniteSets, TLC

VARIABLES
  store,   \* store[kind]: function from the existing names of the tenant to rows
  clock,   \* wall clock, in whole seconds
  req,     \* req[r]: the request handled by handler slot r (locals of the handler)
  calls,   \* calls[r]: the store write calls the request in slot r has issued, each
           \* with its result, the time of the call and the names it found present
  nreq,    \* number of write requests accepted so far
  issued,  \* issued[r]: the store operations (reads and writes) the request in slot
           \* r has sent, by name, in order
  eval     \* one call of a helper function on its own: its arguments and its result

vars == <<store, clock, req, calls, nreq, issued, eval>>

----------------------------------------------------------------------------
(* Bounds of the model *)

MaxBatch == 2       \* documents in one request body
MaxRequests == 2    \* requests handled in one behaviour
MaxClock == 1       \* last clock value (seconds)

(* HTTP status codes used by the handlers *)
StatusOK == 200
StatusBadRequest == 400
StatusNotFound == 404
StatusInternalServerError == 500

Kinds == {"credential", "exporter"}
Slots == {1, 2}
Names == {"a", "b"}

----------------------------------------------------------------------------
(* Document trees: what yaml.v2 decodes into interface{}.  A mapping is a  *)
(* function from key trees to value trees (Go map[interface{}]interface{}).*)

Str(s) == [tag |-> "str", v |-> s]
Num(n) == [tag |-> "int", n |-> n]
Float(f) == [tag |-> "float", f |-> f]
Nil == [tag |-> "nil"]
SeqOf(items) == [tag |-> "seq", items |-> items]
MapOf(kv) == [tag |-> "map", kv |-> kv]

(* JSON texts.  An object is given by its members; a raw text is a string  *)
(* handed on as it came.                                                   *)
JStr(s) == [json |-> "string", s |-> s]
JNum(n) == [json |-> "number", n |-> n]
JFloat(f) == [json |-> "float", f |-> f]
JNull == [json |-> "null"]
JArr(items) == [json |-> "array", items |-> items]
JObj(members) == [json |-> "object", members |-> members]
JRaw(text) == [json |-> "raw", text |-> text]

GoodJSONText == "{\"a\":1}"
BadJSONText == "{not valid json"

(* encoding/json.Valid on the strings of the model *)
jsonValid(s) == s \in {GoodJSONText, "{}", "1"}

Ok(val) == [ok |-> TRUE, val |-> val]
Err(msg, credType, credName, why) ==
  [ok |-> FALSE, msg |-> msg, credType |-> credType, credName |-> credName, why |-> why]

----------------------------------------------------------------------------
(* validateCredValue *)

AwsErr(credType, credName, why) ==
  Err("expected credential value to contain YAML string fields: AWS_ACCESS_KEY_ID and AWS_SECRET_ACCESS_KEY",
      credType, credName, why)

(* variant: the size of the mapping is not looked at *)
validateAwsAnySize(credName, credType, credValue) ==
  IF credValue.tag # "map" THEN AwsErr(credType, credName, "expected a map")
  ELSE LET v == credValue.kv
           kId == Str("AWS_ACCESS_KEY_ID")
           kSecret == Str("AWS_SECRET_ACCESS_KEY")
       IN IF ~(kId \in DOMAIN v /\ kSecret \in DOMAIN v)
          THEN AwsErr(credType, credName, "missing fields")
          ELSE IF ~(v[kId].tag = "str" /\ v[kSecret].tag = "str")
               THEN AwsErr(credType, credName, "non-string fields")
          ELSE Ok(JObj("AWS_ACCESS_KEY_ID" :> JStr(v[kId].v)
                       @@ "AWS_SECRET_ACCESS_KEY" :> JStr(v[kSecret].v)))

validateAws(credName, credType, credValue) ==
  IF credValue.tag # "map" THEN AwsErr(credType, credName, "expected a map")
  ELSE LET v == credValue.kv
           kId == Str("AWS_ACCESS_KEY_ID")
           kSecret == Str("AWS_SECRET_ACCESS_KEY")
       IN IF Cardinality(DOMAIN v) # 2 THEN AwsErr(credType, credName, "wrong size")
          ELSE IF ~(kId \in DOMAIN v /\ kSecret \in DOMAIN v)
               THEN AwsErr(credType, credName, "missing fields")
          ELSE IF ~(v[kId].tag = "str" /\ v[kSecret].tag = "str")
               THEN AwsErr(credType, credName, "non-string fields")
          ELSE Ok(JObj("AWS_ACCESS_KEY_ID" :> JStr(v[kId].v)
                       @@ "AWS_SECRET_ACCESS_KEY" :> JStr(v[kSecret].v)))

(* variant: any string is taken as a service-account key *)
validateGcpUnchecked(credName, credType, credValue) ==
  IF credValue.tag # "str"
  THEN Err("expected credential value to be a JSON string", credType, credName, "")
  ELSE Ok(JRaw(credValue.v))

validateGcp(credName, credType, credValue) ==
  IF credValue.tag # "str"
  THEN Err("expected credential value to be a JSON string", credType, credName, "")
  ELSE IF ~jsonValid(credValue.v)
       THEN Err("credential value is not a valid JSON string", credType, credName, "")
       ELSE Ok(JRaw(credValue.v))

validateCredValue(credName, credType, credValue) ==
  CASE credType = "aws-key" -> validateAws(credName, credType, credValue)
    [] credType = "gcp-service-account" -> validateGcp(credName, credType, credValue)
    [] OTHER -> Err("unsupported credential type (expected aws-key or gcp-service-account)",
                    credType, "", "")

----------------------------------------------------------------------------
(* recurseMapStringKeys and the JSON encoding of its result *)

KeyErr == [ok |-> FALSE, msg |-> "map is invalid (keys must be strings)"]

(* variant: an entry with a key that is not a string is left out *)
RECURSIVE recurseMapStringKeysDropping(_)
recurseMapStringKeysDropping(in) ==
  CASE in.tag = "map" ->
         LET strs == {k \in DOMAIN in.kv : k.tag = "str"}
             sub == [k \in strs |-> recurseMapStringKeysDropping(in.kv[k])]
         IN IF \E k \in strs : ~sub[k].ok THEN KeyErr
            ELSE Ok([tag |-> "strmap", kv |-> [s \in {k.v : k \in strs} |-> sub[Str(s)].val]])
    [] in.tag = "seq" ->
         LET sub == [i \in DOMAIN in.items |-> recurseMapStringKeysDropping(in.items[i])]
         IN IF \E i \in DOMAIN in.items : ~sub[i].ok THEN KeyErr
            ELSE Ok(SeqOf([i \in DOMAIN in.items |-> sub[i].val]))
    [] OTHER -> Ok(in)

RECURSIVE recurseMapStringKeys(_)
recurseMapStringKeys(in) ==
  CASE in.tag = "map" ->
         LET sub == [k \in DOMAIN in.kv |->
                       IF k.tag = "str" THEN recurseMapStringKeys(in.kv[k]) ELSE KeyErr]
         IN IF \E k \in DOMAIN in.kv : ~sub[k].ok THEN KeyErr
            ELSE Ok([tag |-> "strmap",
                     kv |-> [s \in {k.v : k \in DOMAIN in.kv} |-> sub[Str(s)].val]])
    [] in.tag = "seq" ->
         LET sub == [i \in DOMAIN in.items |-> recurseMapStringKeys(in.items[i])]
         IN IF \E i \in DOMAIN in.items : ~sub[i].ok THEN KeyErr
            ELSE Ok(SeqOf([i \in DOMAIN in.items |-> sub[i].val]))
    [] OTHER -> Ok(in)

MarshalErr == [ok |-> FALSE, msg |-> "json: unsupported value"]

(* encoding/json.Marshal of a converted tree: NaN has no JSON encoding, and *)
(* a map that still has interface{} keys is an unsupported type.           *)
RECURSIVE jsonMarshal(_)
jsonMarshal(t) ==
  CASE t.tag = "str" -> Ok(JStr(t.v))
    [] t.tag = "int" -> Ok(JNum(t.n))
    [] t.tag = "float" -> IF t.f = "NaN" THEN MarshalErr ELSE Ok(JFloat(t.f))
    [] t.tag = "nil" -> Ok(JNull)
    [] t.tag = "seq" ->
         LET sub == [i \in DOMAIN t.items |-> jsonMarshal(t.items[i])]
         IN IF \E i \in DOMAIN t.items : ~sub[i].ok THEN MarshalErr
            ELSE Ok(JArr([i \in DOMAIN t.items |-> sub[i].val]))
    [] t.tag = "strmap" ->
         LET sub == [s \in DOMAIN t.kv |-> jsonMarshal(t.kv[s])]
         IN IF \E s \in DOMAIN t.kv : ~sub[s].ok THEN MarshalErr
            ELSE Ok(JObj([s \in DOMAIN t.kv |-> sub[s].val]))
    [] OTHER -> MarshalErr

----------------------------------------------------------------------------
(* getTenant and nowTimestamp *)

(* variant: the first value is taken, however many there are *)
getTenantFirst(hdr) ==
  IF Len(hdr) = 0 THEN [ok |-> FALSE, msg |-> "missing tenant ID in request"]
  ELSE IF hdr[1] = "" THEN [ok |-> FALSE, msg |-> "invalid tenant ID in request"]
  ELSE Ok(hdr[1])

(* The X-Scope-Orgid header: the sequence of its values, <<>> when absent. *)
getTenant(hdr) ==
  IF Len(hdr) = 0 THEN [ok |-> FALSE, msg |-> "missing tenant ID in request"]
  ELSE IF Len(hdr) # 1 \/ hdr[1] = "" THEN [ok |-> FALSE, msg |-> "invalid tenant ID in request"]
  ELSE Ok(hdr[1])

(* time.Now() formatted as RFC3339, which keeps whole seconds: a timestamp *)
(* is the count of seconds it shows                                        *)
nowTimestamp == clock

----------------------------------------------------------------------------
(* The store behind credentialClient and exporterClient (go/pkg/graphql).  *)
(* rows is the tenant's table of one kind: a function from the existing    *)
(* names to rows.  Every call can fail with a backend error.               *)

BackendError == "backend error"
UniquenessViolation == "uniqueness violation"

Ptr(s) == <<s>>
NilPtr == <<>>

RowOf(op) == [f \in (DOMAIN op) \ {"name"} |-> op[f]]

OpNames(ops) == {ops[i].name : i \in DOMAIN ops}

(* insert(tenant, sequence[InsertOp]) -> Error?: one bulk operation; the   *)
(* (tenant, name) uniqueness constraint rejects it as a whole.             *)
storeInsert(rows, inserts, backendFails) ==
  IF backendFails THEN [ok |-> FALSE, err |-> BackendError, rows |-> rows]
  ELSE IF \/ \E i \in DOMAIN inserts : inserts[i].name \in DOMAIN rows
          \/ \E i, j \in DOMAIN inserts : i # j /\ inserts[i].name = inserts[j].name
       THEN [ok |-> FALSE, err |-> UniquenessViolation, rows |-> rows]
       ELSE [ok |-> TRUE, err |-> "",
             rows |-> [n \in DOMAIN rows \cup OpNames(inserts) |->
                         IF n \in DOMAIN rows THEN rows[n]
                         ELSE RowOf(CHOOSE op \in {inserts[i] : i \in DOMAIN inserts} :
                                      op.name = n)]]

(* update(tenant, UpdateOp) -> Error?: sets the fields the operation       *)
(* carries on the row of that name; no row of that name is not an error.   *)
storeUpdate(rows, update, backendFails) ==
  IF backendFails THEN [ok |-> FALSE, err |-> BackendError, rows |-> rows]
  ELSE IF update.name \notin DOMAIN rows THEN [ok |-> TRUE, err |-> "", rows |-> rows]
  ELSE [ok |-> TRUE, err |-> "",
        rows |-> [rows EXCEPT ![update.name] =
                    [f \in DOMAIN @ |-> IF f \in DOMAIN update THEN update[f] ELSE @[f]]]]

(* list(tenant) -> sequence[Resource] *)
storeList(rows, backendFails) ==
  IF backendFails THEN [ok |-> FALSE, err |-> BackendError, rows |-> rows]
  ELSE [ok |-> TRUE, err |-> "", rows |-> rows]

(* get(tenant, name) -> Resource | NotFound: not found is no error *)
storeGet(rows, name, backendFails) ==
  IF backendFails THEN [ok |-> FALSE, err |-> BackendError, found |-> FALSE]
  ELSE IF name \notin DOMAIN rows THEN [ok |-> TRUE, err |-> "", found |-> FALSE]
  ELSE [ok |-> TRUE, err |-> "", found |-> TRUE, row |-> rows[name]]

(* delete(tenant, name) -> Resource | NotFound: the row of that name is    *)
(* removed and returned; not found is no error and removes nothing.        *)
storeDelete(rows, name, backendFails) ==
  IF backendFails THEN [ok |-> FALSE, err |-> BackendError, found |-> FALSE, rows |-> rows]
  ELSE IF name \notin DOMAIN rows
  THEN [ok |-> TRUE, err |-> "", found |-> FALSE, rows |-> rows]
  ELSE [ok |-> TRUE, err |-> "", found |-> TRUE,
        rows |-> [n \in (DOMAIN rows) \ {name} |-> rows[n]]]

----------------------------------------------------------------------------
(* Request bodies: a stream of YAML documents.  A document that does not   *)
(* decode into the Credential/Exporter struct in strict mode is Malformed. *)

Malformed == [ok |-> FALSE]

CredentialDoc(name, type, value) ==
  [ok |-> TRUE, name |-> name, type |-> type, value |-> value]

ExporterDoc(name, type, credential, config) ==
  [ok |-> TRUE, name |-> name, type |-> type, credential |-> credential, config |-> config]

----------------------------------------------------------------------------
(* writeCredentials and writeExporters: the work on one decoded document   *)

Fail(resp) == [ok |-> FALSE, resp |-> resp]
AsInsert(op) == [ok |-> TRUE, update |-> FALSE, op |-> op]
AsUpdate(op) == [ok |-> TRUE, update |-> TRUE, op |-> op]

(* variant: the type-change check left out *)
typeChangedNever(type, existingType) == FALSE

typeChanged(type, existingType) == type # "" /\ existingType # type

(* variant: updated_at stamped by a second, later reading of the clock *)
CredentialInsertInputRestamped(name, credType, value, now) ==
  [name |-> name, type |-> credType, value |-> value, created_at |-> now,
   updated_at |-> now + 1]

CredentialInsertInput(name, credType, value, now) ==
  [name |-> name, type |-> credType, value |-> value, created_at |-> now, updated_at |-> now]

(* variant: the update stamped by a later reading of the clock *)
UpdateCredentialVariablesRestamped(name, value, now) ==
  [name |-> name, value |-> value, updated_at |-> now + 1]

UpdateCredentialVariables(name, value, now) ==
  [name |-> name, value |-> value, updated_at |-> now]

credentialRecord(existingTypes, yamlCredential, now) ==
  LET value == validateCredValue(yamlCredential.name, yamlCredential.type, yamlCredential.value)
  IN IF ~value.ok
     THEN Fail([status |-> StatusBadRequest, msg |-> "Credential format validation failed",
                err |-> value])
     ELSE IF yamlCredential.name \in DOMAIN existingTypes
     THEN IF typeChanged(yamlCredential.type, existingTypes[yamlCredential.name])
          THEN Fail([status |-> StatusBadRequest, msg |-> "Credential type cannot be updated",
                     name |-> yamlCredential.name,
                     current |-> existingTypes[yamlCredential.name],
                     updated |-> yamlCredential.type])
          ELSE AsUpdate(UpdateCredentialVariables(yamlCredential.name, value.val, now))
     ELSE AsInsert(CredentialInsertInput(yamlCredential.name, yamlCredential.type,
                                         value.val, now))

ExporterInsertInput(name, expType, credential, config, now) ==
  [name |-> name, type |-> expType, credential |-> credential, config |-> config,
   created_at |-> now, updated_at |-> now]

(* variant: the timestamp of the update put in the wrong column *)
UpdateExporterVariablesCreatedAt(name, credential, config, now) ==
  [name |-> name, credential |-> credential, config |-> config, created_at |-> now]

UpdateExporterVariables(name, credential, config, now) ==
  [name |-> name, credential |-> credential, config |-> config, updated_at |-> now]

exporterConfig(yamlExporter) ==
  IF yamlExporter.config.tag # "map"
  THEN Fail([status |-> StatusBadRequest, msg |-> "Exporter config is invalid (must be YAML map)",
             name |-> yamlExporter.name])
  ELSE LET convMap == recurseMapStringKeys(yamlExporter.config)
       IN IF ~convMap.ok
          THEN Fail([status |-> StatusBadRequest,
                     msg |-> "Exporter config could not be encoded as JSON",
                     name |-> yamlExporter.name, err |-> convMap.msg])
          ELSE LET json == jsonMarshal(convMap.val)
               IN IF ~json.ok
                  THEN Fail([status |-> StatusBadRequest,
                             msg |-> "Exporter config could not be encoded as JSON",
                             name |-> yamlExporter.name, err |-> json.msg])
                  ELSE Ok(json.val)

exporterRecord(existingTypes, yamlExporter, now) ==
  LET credential == IF yamlExporter.credential = "" THEN NilPtr
                    ELSE Ptr(yamlExporter.credential)
      gconfig == exporterConfig(yamlExporter)
  IN IF ~gconfig.ok THEN gconfig
     ELSE IF yamlExporter.name \in DOMAIN existingTypes
     THEN IF typeChanged(yamlExporter.type, existingTypes[yamlExporter.name])
          THEN Fail([status |-> StatusBadRequest, msg |-> "Exporter type cannot be updated",
                     name |-> yamlExporter.name,
                     current |-> existingTypes[yamlExporter.name],
                     updated |-> yamlExporter.type])
          ELSE AsUpdate(UpdateExporterVariables(yamlExporter.name, credential,
                                                gconfig.val, now))
     ELSE AsInsert(ExporterInsertInput(yamlExporter.name, yamlExporter.type, credential,
                                       gconfig.val, now))

(* The decode loops: documents are taken from the body one at a time until *)
(* end of stream; the first failure ends the request.                      *)
(* variant: a document that fails is skipped and the loop goes on *)
RECURSIVE decodeCredentialsSkipping(_, _, _, _, _)
decodeCredentialsSkipping(existingTypes, body, now, inserts, updates) ==
  IF body = <<>> THEN [ok |-> TRUE, inserts |-> inserts, updates |-> updates]
  ELSE IF ~Head(body).ok
  THEN decodeCredentialsSkipping(existingTypes, Tail(body), now, inserts, updates)
  ELSE LET rec == credentialRecord(existingTypes, Head(body), now)
       IN IF ~rec.ok
          THEN decodeCredentialsSkipping(existingTypes, Tail(body), now, inserts, updates)
          ELSE IF rec.update
          THEN decodeCredentialsSkipping(existingTypes, Tail(body), now, inserts,
                                         Append(updates, rec.op))
          ELSE decodeCredentialsSkipping(existingTypes, Tail(body), now,
                                         Append(inserts, rec.op), updates)

(* variant: a name the batch has taken for an insert counts as existing    *)
(* for the documents after it                                              *)
RECURSIVE decodeCredentialsTracking(_, _, _, _, _)
decodeCredentialsTracking(existingTypes, body, now, inserts, updates) ==
  IF body = <<>> THEN [ok |-> TRUE, inserts |-> inserts, updates |-> updates]
  ELSE IF ~Head(body).ok
  THEN Fail([status |-> StatusBadRequest, msg |-> "Decoding credential input failed",
             index |-> Len(inserts) + Len(updates)])
  ELSE LET rec == credentialRecord(existingTypes, Head(body), now)
       IN IF ~rec.ok THEN rec
          ELSE IF rec.update
          THEN decodeCredentialsTracking(existingTypes, Tail(body), now, inserts,
                                         Append(updates, rec.op))
          ELSE decodeCredentialsTracking((rec.op.name :> rec.op.type) @@ existingTypes,
                                         Tail(body), now, Append(inserts, rec.op), updates)

RECURSIVE decodeCredentials(_, _, _, _, _)
decodeCredentials(existingTypes, body, now, inserts, updates) ==
  IF body = <<>> THEN [ok |-> TRUE, inserts |-> inserts, updates |-> updates]
  ELSE IF ~Head(body).ok
  THEN Fail([status |-> StatusBadRequest, msg |-> "Decoding credential input failed",
             index |-> Len(inserts) + Len(updates)])
  ELSE LET rec == credentialRecord(existingTypes, Head(body), now)
       IN IF ~rec.ok THEN rec
          ELSE IF rec.update
          THEN decodeCredentials(existingTypes, Tail(body), now, inserts,
                                 Append(updates, rec.op))
          ELSE decodeCredentials(existingTypes, Tail(body), now, Append(inserts, rec.op),
                                 updates)

RECURSIVE decodeExporters(_, _, _, _, _)
decodeExporters(existingTypes, body, now, inserts, updates) ==
  IF body = <<>> THEN [ok |-> TRUE, inserts |-> inserts, updates |-> updates]
  ELSE IF ~Head(body).ok
  THEN Fail([status |-> StatusBadRequest, msg |-> "Decoding exporter input failed",
             index |-> Len(inserts) + Len(updates)])
  ELSE LET rec == exporterRecord(existingTypes, Head(body), now)
       IN IF ~rec.ok THEN rec
          ELSE IF rec.update
          THEN decodeExporters(existingTypes, Tail(body), now, inserts,
                               Append(updates, rec.op))
          ELSE decodeExporters(existingTypes, Tail(body), now, Append(inserts, rec.op),
                               updates)

----------------------------------------------------------------------------
(* The handler of one write request, step by step.  A handler runs in its  *)
(* own goroutine; its steps interleave with other requests at store calls. *)

NoResp == [status |-> 0, msg |-> ""]

(* no helper call under evaluation *)
NoEval == [fn |-> "", pc |-> "ret"]

(* op: the handler ("write", "list", "get", "delete"); hdr: the values of   *)
(* the request's X-Scope-Orgid header; name: the {name} of the path        *)
IdleReq ==
  [pc |-> "idle", kind |-> "credential", op |-> "write", hdr |-> <<>>, name |-> "",
   existingTypes |-> <<>>, body |-> <<>>,
   now |-> 0, inserts |-> <<>>, updates |-> <<>>, next |-> 1, resp |-> NoResp]

Respond(rq, resp) == [rq EXCEPT !.pc = "done", !.resp = resp]

Success == [status |-> StatusOK, msg |-> ""]

(* the store operation a handler has sent after getTenant: none when it   *)
(* returned on the tenant error                                            *)
issuedBy(tenant, op) == IF tenant.ok THEN <<op>> ELSE <<>>

(* getTenant, List, and the map of existing names to types *)
listExisting(kind, tenant, listed) ==
  IF ~tenant.ok
  THEN Respond([IdleReq EXCEPT !.kind = kind],
               [status |-> StatusBadRequest, msg |-> tenant.msg])
  ELSE IF ~listed.ok
  THEN Respond([IdleReq EXCEPT !.kind = kind],
               [status |-> StatusInternalServerError, msg |-> "Listing failed",
                err |-> listed.err])
  ELSE [IdleReq EXCEPT !.kind = kind, !.pc = "decode",
                       !.existingTypes = [n \in DOMAIN listed.rows |-> listed.rows[n].type]]

(* variant: the updates are submitted first, the inserts never *)
reconcileUpdatesFirst(rq, body, now) ==
  LET res == IF rq.kind = "credential"
             THEN decodeCredentials(rq.existingTypes, body, now, <<>>, <<>>)
             ELSE decodeExporters(rq.existingTypes, body, now, <<>>, <<>>)
      got == [rq EXCEPT !.body = body, !.now = now]
  IN IF ~res.ok THEN Respond(got, res.resp)
     ELSE IF Len(res.inserts) + Len(res.updates) = 0
     THEN Respond(got, [status |-> StatusBadRequest,
                        msg |-> "Missing YAML data in request body"])
     ELSE [got EXCEPT !.inserts = res.inserts, !.updates = res.updates,
                      !.pc = IF Len(res.updates) # 0 THEN "update" ELSE "insert"]

(* variant: a body without documents is answered as a success *)
reconcileEmptyOk(rq, body, now) ==
  LET res == IF rq.kind = "credential"
             THEN decodeCredentials(rq.existingTypes, body, now, <<>>, <<>>)
             ELSE decodeExporters(rq.existingTypes, body, now, <<>>, <<>>)
      got == [rq EXCEPT !.body = body, !.now = now]
  IN IF ~res.ok THEN Respond(got, res.resp)
     ELSE IF Len(res.inserts) + Len(res.updates) = 0 THEN Respond(got, Success)
     ELSE [got EXCEPT !.inserts = res.inserts, !.updates = res.updates,
                      !.pc = IF Len(res.inserts) # 0 THEN "insert" ELSE "update"]

(* nowTimestamp, the decode loop and the empty-batch check *)
reconcile(rq, body, now) ==
  LET res == IF rq.kind = "credential"
             THEN decodeCredentials(rq.existingTypes, body, now, <<>>, <<>>)
             ELSE decodeExporters(rq.existingTypes, body, now, <<>>, <<>>)
      got == [rq EXCEPT !.body = body, !.now = now]
  IN IF ~res.ok THEN Respond(got, res.resp)
     ELSE IF Len(res.inserts) + Len(res.updates) = 0
     THEN Respond(got, [status |-> StatusBadRequest,
                        msg |-> "Missing YAML data in request body"])
     ELSE [got EXCEPT !.inserts = res.inserts, !.updates = res.updates,
                      !.pc = IF Len(res.inserts) # 0 THEN "insert" ELSE "update"]

(* variant: the error of the bulk Insert is dropped *)
afterInsertSwallowing(rq, res) ==
  IF Len(rq.updates) # 0 THEN [rq EXCEPT !.pc = "update", !.next = 1]
  ELSE Respond(rq, Success)

(* what the handler does with the result of the bulk Insert *)
afterInsert(rq, res) ==
  IF ~res.ok
  THEN Respond(rq, [status |-> StatusInternalServerError, msg |-> "Creating failed",
                    count |-> Len(rq.inserts), err |-> res.err])
  ELSE IF Len(rq.updates) # 0 THEN [rq EXCEPT !.pc = "update", !.next = 1]
  ELSE Respond(rq, Success)

(* variant: a failed Update is logged and the range loop goes on *)
afterUpdateContinuing(rq, res) ==
  IF rq.next < Len(rq.updates) THEN [rq EXCEPT !.next = @ + 1]
  ELSE IF ~res.ok
  THEN Respond(rq, [status |-> StatusInternalServerError, msg |-> "Updating failed",
                    name |-> rq.updates[rq.next].name, err |-> res.err])
  ELSE Respond(rq, Success)

(* what the handler does with the result of one Update of the range loop *)
afterUpdate(rq, res) ==
  IF ~res.ok
  THEN Respond(rq, [status |-> StatusInternalServerError, msg |-> "Updating failed",
                    name |-> rq.updates[rq.next].name, err |-> res.err])
  ELSE IF rq.next < Len(rq.updates) THEN [rq EXCEPT !.next = @ + 1]
  ELSE Respond(rq, Success)

WriteBegin(r, kind, hdr, backendFails) ==
  /\ nreq < MaxRequests
  /\ req[r].pc \in {"idle", "done"}
  /\ req' = [req EXCEPT ![r] = [listExisting(kind, getTenant(hdr),
                                             storeList(store[kind], backendFails))
                                  EXCEPT !.hdr = hdr]]
  /\ calls' = [calls EXCEPT ![r] = <<>>]
  /\ issued' = [issued EXCEPT ![r] = issuedBy(getTenant(hdr), "list")]
  /\ nreq' = nreq + 1
  /\ UNCHANGED <<store, clock, eval>>

WriteDecode(r, body) ==
  /\ req[r].pc = "decode"
  /\ req' = [req EXCEPT ![r] = reconcile(@, body, nowTimestamp)]
  /\ UNCHANGED <<store, clock, calls, nreq, issued, eval>>

WriteInsert(r, backendFails) ==
  /\ req[r].pc = "insert"
  /\ LET rq == req[r]
         res == storeInsert(store[rq.kind], rq.inserts, backendFails)
     IN /\ store' = [store EXCEPT ![rq.kind] = res.rows]
        /\ calls' = [calls EXCEPT ![r] =
                       Append(@, [op |-> "insert", ops |-> rq.inserts, ok |-> res.ok,
                                  err |-> res.err, at |-> nowTimestamp,
                                  existed |-> OpNames(rq.inserts) \cap DOMAIN store[rq.kind]])]
        /\ req' = [req EXCEPT ![r] = afterInsert(rq, res)]
  /\ issued' = [issued EXCEPT ![r] = Append(@, "insert")]
  /\ UNCHANGED <<clock, nreq, eval>>

WriteUpdate(r, backendFails) ==
  /\ req[r].pc = "update"
  /\ LET rq == req[r]
         res == storeUpdate(store[rq.kind], rq.updates[rq.next], backendFails)
     IN /\ store' = [store EXCEPT ![rq.kind] = res.rows]
        /\ calls' = [calls EXCEPT ![r] =
                       Append(@, [op |-> "update", ops |-> <<rq.updates[rq.next]>>,
                                  ok |-> res.ok, err |-> res.err, at |-> nowTimestamp,
                                  existed |-> {rq.updates[rq.next].name}
                                                \cap DOMAIN store[rq.kind]])]
        /\ req' = [req EXCEPT ![r] = afterUpdate(rq, res)]
  /\ issued' = [issued EXCEPT ![r] = Append(@, "update")]
  /\ UNCHANGED <<clock, nreq, eval>>

Tick ==
  /\ clock < MaxClock
  /\ clock' = clock + 1
  /\ UNCHANGED <<store, req, calls, nreq, issued, eval>>

----------------------------------------------------------------------------
(* The read and delete handlers: one store call each *)

(* variant: the stored value is copied into the answer *)
CredentialInfoWithValue(name, row) ==
  [name |-> name, type |-> row.type, value |-> row.value,
   created_at |-> row.created_at, updated_at |-> row.updated_at]

(* CredentialInfo of a stored credential: name, type and the timestamps *)
CredentialInfo(name, row) ==
  [name |-> name, type |-> row.type,
   created_at |-> row.created_at, updated_at |-> row.updated_at]

(* encoding/json.Unmarshal of a stored config: numbers come back as        *)
(* float64, objects as map[string]interface{}                              *)
RECURSIVE jsonUnmarshal(_)
jsonUnmarshal(j) ==
  CASE j.json = "string" -> Str(j.s)
    [] j.json = "number" -> Float(j.n)
    [] j.json = "float" -> Float(j.f)
    [] j.json = "null" -> Nil
    [] j.json = "array" -> SeqOf([i \in DOMAIN j.items |-> jsonUnmarshal(j.items[i])])
    [] j.json = "object" ->
         [tag |-> "strmap", kv |-> [f \in DOMAIN j.members |-> jsonUnmarshal(j.members[f])]]
    [] OTHER -> Nil

(* the config of an answer: the stored JSON as a map, or the text passed   *)
(* through under "json" when it is not a JSON object                       *)
configJSON(config) ==
  IF config.json = "object" THEN jsonUnmarshal(config)
  ELSE [tag |-> "strmap", kv |-> ("json" :> config)]

(* ExporterInfo of a stored exporter; credential is left out when empty    *)
ExporterInfo(name, row) ==
  [name |-> name, type |-> row.type, config |-> configJSON(row.config),
   created_at |-> row.created_at, updated_at |-> row.updated_at]
  @@ (IF row.credential = NilPtr THEN <<>> ELSE "credential" :> row.credential[1])

InfoOf(kind, name, row) ==
  IF kind = "credential" THEN CredentialInfo(name, row) ELSE ExporterInfo(name, row)

(* the answer to a delete: an Info with the name only *)
DeletedInfo(name) == [name |-> name]

TenantErrorResp(tenant) == [status |-> StatusBadRequest, msg |-> tenant.msg]

(* listCredentials, listExporters: one Info per listed resource *)
listResp(kind, tenant, listed) ==
  IF ~tenant.ok THEN TenantErrorResp(tenant)
  ELSE IF ~listed.ok
  THEN [status |-> StatusInternalServerError, msg |-> "Listing failed", kind |-> kind,
        tenant |-> tenant.val, err |-> listed.err]
  ELSE [status |-> StatusOK, msg |-> "",
        body |-> {InfoOf(kind, n, listed.rows[n]) : n \in DOMAIN listed.rows}]

(* getCredential, getExporter *)
getResp(kind, tenant, name, got) ==
  IF ~tenant.ok THEN TenantErrorResp(tenant)
  ELSE IF ~got.ok
  THEN [status |-> StatusInternalServerError, msg |-> "Getting failed", kind |-> kind,
        err |-> got.err]
  ELSE IF ~got.found
  THEN [status |-> StatusNotFound, msg |-> "not found", kind |-> kind, name |-> name]
  ELSE [status |-> StatusOK, msg |-> "", body |-> InfoOf(kind, name, got.row)]

(* variant: a Delete that found nothing is answered like one that failed *)
deleteRespNotFoundAsError(kind, tenant, name, deleted) ==
  IF ~tenant.ok THEN TenantErrorResp(tenant)
  ELSE IF ~deleted.ok \/ ~deleted.found
  THEN [status |-> StatusInternalServerError, msg |-> "Deleting failed", kind |-> kind,
        err |-> deleted.err]
  ELSE [status |-> StatusOK, msg |-> "", body |-> DeletedInfo(name)]

(* deleteCredential, deleteExporter *)
deleteResp(kind, tenant, name, deleted) ==
  IF ~tenant.ok THEN TenantErrorResp(tenant)
  ELSE IF ~deleted.ok
  THEN [status |-> StatusInternalServerError, msg |-> "Deleting failed", kind |-> kind,
        err |-> deleted.err]
  ELSE IF ~deleted.found
  THEN [status |-> StatusNotFound, msg |-> "not found", kind |-> kind, name |-> name]
  ELSE [status |-> StatusOK, msg |-> "", body |-> DeletedInfo(name)]

(* a request of one step, answered *)
Answered(kind, op, hdr, name, resp) ==
  [IdleReq EXCEPT !.pc = "done", !.kind = kind, !.op = op, !.hdr = hdr, !.name = name,
                  !.resp = resp]

List(r, kind, hdr, backendFails) ==
  /\ req[r].pc \in {"idle", "done"}
  /\ req' = [req EXCEPT ![r] =
               Answered(kind, "list", hdr, "",
                        listResp(kind, getTenant(hdr), storeList(store[kind], backendFails)))]
  /\ issued' = [issued EXCEPT ![r] = issuedBy(getTenant(hdr), "list")]
  /\ calls' = [calls EXCEPT ![r] = <<>>]
  /\ UNCHANGED <<store, clock, nreq, eval>>

Get(r, kind, hdr, name, backendFails) ==
  /\ req[r].pc \in {"idle", "done"}
  /\ req' = [req EXCEPT ![r] =
               Answered(kind, "get", hdr, name,
                        getResp(kind, getTenant(hdr), name,
                                storeGet(store[kind], name, backendFails)))]
  /\ issued' = [issued EXCEPT ![r] = issuedBy(getTenant(hdr), "get")]
  /\ calls' = [calls EXCEPT ![r] = <<>>]
  /\ UNCHANGED <<store, clock, nreq, eval>>

Delete(r, kind, hdr, name, backendFails) ==
  /\ req[r].pc \in {"idle", "done"}
  /\ LET tenant == getTenant(hdr)
         res == storeDelete(store[kind], name, backendFails)
     IN /\ req' = [req EXCEPT ![r] =
                     Answered(kind, "delete", hdr, name, deleteResp(kind, tenant, name, res))]
        /\ issued' = [issued EXCEPT ![r] = issuedBy(tenant, "delete")]
        /\ store' = IF tenant.ok THEN [store EXCEPT ![kind] = res.rows] ELSE store
        /\ calls' = [calls EXCEPT ![r] =
                       IF tenant.ok
                       THEN <<[op |-> "delete", ops |-> <<[name |-> name]>>, ok |-> res.ok,
                               err |-> res.err, at |-> nowTimestamp,
                               existed |-> {name} \cap DOMAIN store[kind]]>>
                       ELSE <<>>]
  /\ UNCHANGED <<clock, nreq, eval>>

----------------------------------------------------------------------------
(* Inputs *)

Headers == {<<"t1">>, <<>>, <<"">>, <<"t1", "t2">>}

AwsValue ==
  MapOf(Str("AWS_ACCESS_KEY_ID") :> Str("A") @@ Str("AWS_SECRET_ACCESS_KEY") :> Str("B"))
AwsValue2 ==
  MapOf(Str("AWS_ACCESS_KEY_ID") :> Str("C") @@ Str("AWS_SECRET_ACCESS_KEY") :> Str("D"))
GcpValue == Str(GoodJSONText)
BadGcpValue == Str(BadJSONText)

CredDocs ==
  {CredentialDoc("a", "aws-key", AwsValue),
   CredentialDoc("a", "aws-key", AwsValue2),
   CredentialDoc("a", "", AwsValue),
   CredentialDoc("a", "gcp-service-account", GcpValue),
   CredentialDoc("a", "gcp-service-account", AwsValue),
   CredentialDoc("b", "gcp-service-account", GcpValue),
   CredentialDoc("b", "gcp-service-account", BadGcpValue),
   CredentialDoc("b", "azure", AwsValue),
   Malformed}

ConfigA == MapOf(Str("region") :> Str("us"))
ConfigB == MapOf(Str("ids") :> SeqOf(<<Num(1), MapOf(Str("k") :> Nil)>>))
ConfigBadKey == MapOf(Str("m") :> MapOf(Num(1) :> Str("x")))
ConfigNaN == MapOf(Str("f") :> Float("NaN"))

ExpDocs ==
  {ExporterDoc("a", "cloudwatch", "", ConfigA),
   ExporterDoc("a", "", "a", ConfigB),
   ExporterDoc("a", "stackdriver", "", ConfigA),
   ExporterDoc("b", "stackdriver", "a", ConfigB),
   ExporterDoc("b", "cloudwatch", "", ConfigBadKey),
   ExporterDoc("b", "cloudwatch", "", ConfigNaN),
   ExporterDoc("b", "cloudwatch", "", Str("x")),
   Malformed}

Bodies(docs) == UNION {[1..k -> docs] : k \in 0..MaxBatch}

BodiesOf(kind) == IF kind = "credential" THEN Bodies(CredDocs) ELSE Bodies(ExpDocs)

----------------------------------------------------------------------------
(* One request at a time, all requests of a behaviour to the same endpoint *)
(* (the two endpoints share no state)                                      *)

Init ==
  /\ store = [k \in Kinds |-> <<>>]
  /\ clock = 0
  /\ req = [r \in Slots |-> IdleReq]
  /\ calls = [r \in Slots |-> <<>>]
  /\ nreq = 0
  /\ issued = [r \in Slots |-> <<>>]
  /\ eval = NoEval

Next ==
  \/ \E kind \in Kinds, hdr \in Headers, f \in BOOLEAN :
        (nreq = 0 \/ kind = req[1].kind) /\ WriteBegin(1, kind, hdr, f)
  \/ \E body \in BodiesOf(req[1].kind) : WriteDecode(1, body)
  \/ \E f \in BOOLEAN : WriteInsert(1, f)
  \/ \E f \in BOOLEAN : WriteUpdate(1, f)
  \/ Tick

Spec == Init /\ [][Next]_vars

----------------------------------------------------------------------------
(* Two requests of one tenant and one endpoint in flight at once, within   *)
(* one second, with few bodies                                             *)

ConcCredDocs ==
  {CredentialDoc("a", "aws-key", AwsValue),
   CredentialDoc("a", "aws-key", AwsValue2),
   CredentialDoc("b", "gcp-service-account", GcpValue)}

ConcExpDocs ==
  {ExporterDoc("a", "cloudwatch", "", ConfigA),
   ExporterDoc("a", "cloudwatch", "a", ConfigB)}

ConcBodiesOf(kind) ==
  IF kind = "credential" THEN Bodies(ConcCredDocs) ELSE Bodies(ConcExpDocs)

NextConc ==
  \/ \E r \in Slots, kind \in Kinds :
        (nreq = 0 \/ \E q \in Slots : req[q].pc # "idle" /\ kind = req[q].kind)
        /\ WriteBegin(r, kind, <<"t1">>, FALSE)
  \/ \E r \in Slots : \E body \in ConcBodiesOf(req[r].kind) : WriteDecode(r, body)
  \/ \E r \in Slots, f \in BOOLEAN : WriteInsert(r, f)
  \/ \E r \in Slots, f \in BOOLEAN : WriteUpdate(r, f)

SpecConc == Init /\ [][NextConc]_vars

----------------------------------------------------------------------------
(* Properties of the write handlers *)

(* the document decodes and passes the per-record validation of its kind *)
RecordValid(kind, doc) ==
  /\ doc.ok
  /\ IF kind = "credential" THEN validateCredValue(doc.name, doc.type, doc.value).ok
     ELSE exporterConfig(doc).ok

(* the document names an existing resource and a non-empty, different type *)
TypeChangeAttempt(existingTypes, doc) ==
  /\ doc.ok
  /\ doc.name \in DOMAIN existingTypes
  /\ doc.type # ""
  /\ doc.type # existingTypes[doc.name]

DocFails(kind, existingTypes, doc) ==
  ~RecordValid(kind, doc) \/ TypeChangeAttempt(existingTypes, doc)

TypeChangeResp(kind, existingTypes, doc) ==
  [status |-> StatusBadRequest,
   msg |-> IF kind = "credential" THEN "Credential type cannot be updated"
           ELSE "Exporter type cannot be updated",
   name |-> doc.name, current |-> existingTypes[doc.name], updated |-> doc.type]

(* C1: a request whose body holds a document that fails to decode, fails   *)
(* the per-record validation or attempts a type change issues no insert    *)
(* and no update to the store, and is answered 400, also when earlier      *)
(* documents of the body were valid.                                       *)
C1_NoWriteOnInvalidBatch ==
  \A r \in Slots :
    (\E i \in DOMAIN req[r].body :
        DocFails(req[r].kind, req[r].existingTypes, req[r].body[i]))
    => /\ calls[r] = <<>>
       /\ req[r].pc = "done"
       /\ req[r].resp.status = StatusBadRequest
       /\ req[r].inserts = <<>> /\ req[r].updates = <<>>

(* a finished request whose first document was valid and whose second failed *)
C1_Witness ==
  \E r \in Slots :
    /\ req[r].pc = "done"
    /\ Len(req[r].body) = 2
    /\ ~DocFails(req[r].kind, req[r].existingTypes, req[r].body[1])
    /\ DocFails(req[r].kind, req[r].existingTypes, req[r].body[2])

(* C2 as stated: every document that names an existing resource with a     *)
(* non-empty, different type makes the request end with the type-change    *)
(* error naming the resource, the current and the attempted type, with no  *)
(* store write.                                                            *)
C2_AlwaysTypeChangeError ==
  \A r \in Slots : \A i \in DOMAIN req[r].body :
    TypeChangeAttempt(req[r].existingTypes, req[r].body[i])
    => /\ req[r].pc = "done"
       /\ calls[r] = <<>>
       /\ req[r].resp = TypeChangeResp(req[r].kind, req[r].existingTypes, req[r].body[i])

(* C2 amended: such a document always makes the request end 400 with no    *)
(* store write; the response is the type-change error naming the resource, *)
(* the current and the attempted type when no earlier document of the body *)
(* fails and the document itself passes the per-record validation (which   *)
(* for a credential checks the value against the submitted type first).    *)
C2_TypeChangeRejected ==
  \A r \in Slots : \A i \in DOMAIN req[r].body :
    TypeChangeAttempt(req[r].existingTypes, req[r].body[i])
    => /\ req[r].pc = "done"
       /\ calls[r] = <<>>
       /\ req[r].resp.status = StatusBadRequest
       /\ ( /\ RecordValid(req[r].kind, req[r].body[i])
            /\ \A j \in 1..(i - 1) :
                 ~DocFails(req[r].kind, req[r].existingTypes, req[r].body[j]) )
          => req[r].resp = TypeChangeResp(req[r].kind, req[r].existingTypes,
                                          req[r].body[i])

(* a credential request answered with the type-change error after a valid  *)
(* first document                                                          *)
C2_Witness ==
  \E r \in Slots :
    /\ req[r].kind = "credential"
    /\ Len(req[r].body) = 2
    /\ TypeChangeAttempt(req[r].existingTypes, req[r].body[2])
    /\ req[r].resp = TypeChangeResp(req[r].kind, req[r].existingTypes, req[r].body[2])

(* C3: a body of one document that names an existing resource, with an     *)
(* empty type or the stored type and a value that is valid for the stored  *)
(* type, yields exactly one update for that resource, no insert and no     *)
(* error.                                                                  *)
C3_UpdateOfExisting ==
  \A r \in Slots :
    LET rq == req[r]
        doc == rq.body[1]
    IN ( /\ Len(rq.body) = 1
         /\ doc.ok
         /\ doc.name \in DOMAIN rq.existingTypes
         /\ doc.type \in {"", rq.existingTypes[doc.name]}
         /\ IF rq.kind = "credential"
            THEN validateCredValue(doc.name, rq.existingTypes[doc.name], doc.value).ok
            ELSE exporterConfig(doc).ok )
       => /\ rq.inserts = <<>>
          /\ Len(rq.updates) = 1
          /\ rq.updates[1].name = doc.name
          /\ rq.resp.status # StatusBadRequest

(* C4: with no existing resource in the list fetched by the request, a     *)
(* body of N valid documents with distinct names yields N inserts, one per *)
(* document, and no update, each insert with created_at = updated_at = the *)
(* request's now.                                                          *)
C4_AllInserts ==
  \A r \in Slots :
    LET rq == req[r]
    IN ( /\ DOMAIN rq.existingTypes = {}
         /\ \A i \in DOMAIN rq.body : RecordValid(rq.kind, rq.body[i])
         /\ \A i, j \in DOMAIN rq.body : i # j => rq.body[i].name # rq.body[j].name )
       => /\ Len(rq.inserts) = Len(rq.body)
          /\ rq.updates = <<>>
          /\ \A i \in DOMAIN rq.inserts :
               /\ rq.inserts[i].name = rq.body[i].name
               /\ rq.inserts[i].created_at = rq.now
               /\ rq.inserts[i].updated_at = rq.now

(* two inserts from a body of two documents, stamped at a time other than 0 *)
C4_Witness ==
  \E r \in Slots :
    /\ DOMAIN req[r].existingTypes = {}
    /\ Len(req[r].body) = 2
    /\ Len(req[r].inserts) = 2
    /\ req[r].inserts[1].name # req[r].inserts[2].name
    /\ req[r].now # 0

EmptyBatchResp ==
  [status |-> StatusBadRequest, msg |-> "Missing YAML data in request body"]

(* C5: when the decode loop ends on a body without documents, the request  *)
(* ends with the empty-batch error, 400, and has issued no store write.    *)
C5_EmptyBodyRejected ==
  [][\A r \in Slots :
       (req[r].pc = "decode" /\ req'[r].pc # "decode" /\ req'[r].body = <<>>)
       => /\ req'[r].pc = "done"
          /\ req'[r].resp = EmptyBatchResp
          /\ calls'[r] = <<>>]_vars

(* a request answered with the empty-batch error *)
C5_Witness ==
  \E r \in Slots : req[r].pc = "done" /\ req[r].resp = EmptyBatchResp

(* the operation and the names of a store call *)
Sig(call) == <<call.op, [i \in DOMAIN call.ops |-> call.ops[i].name]>>

(* the store calls a valid body asks for: one bulk insert of the new names *)
(* in body order, then one update per existing name in body order          *)
ExpectedCalls(rq) ==
  LET isUpdate(d) == d.name \in DOMAIN rq.existingTypes
      isInsert(d) == d.name \notin DOMAIN rq.existingTypes
      ins == SelectSeq(rq.body, isInsert)
      upd == SelectSeq(rq.body, isUpdate)
  IN (IF ins # <<>> THEN << <<"insert", [i \in DOMAIN ins |-> ins[i].name]>> >> ELSE <<>>)
     \o [i \in DOMAIN upd |-> <<"update", <<upd[i].name>> >>]

(* C6: for a body that passed validation, the store calls of the request   *)
(* are a prefix of: one bulk insert with all inserts, then one update call *)
(* per update in body order; a request answered 200 has issued them all.   *)
C6_InsertThenUpdatesInOrder ==
  \A r \in Slots :
    (\A i \in DOMAIN req[r].body :
        ~DocFails(req[r].kind, req[r].existingTypes, req[r].body[i]))
    => LET exp == ExpectedCalls(req[r])
           got == [i \in DOMAIN calls[r] |-> Sig(calls[r][i])]
       IN /\ Len(got) <= Len(exp)
          /\ got = SubSeq(exp, 1, Len(got))
          /\ (req[r].pc = "done" /\ req[r].resp.status = StatusOK) => got = exp

(* a successful request whose body named the existing resource first and   *)
(* the new one second: the insert was still called before the update       *)
C6_Witness ==
  \E r \in Slots :
    /\ req[r].pc = "done" /\ req[r].resp.status = StatusOK
    /\ Len(req[r].body) = 2
    /\ req[r].body[1].name \in DOMAIN req[r].existingTypes
    /\ Len(calls[r]) = 2
    /\ calls[r][1].op = "insert" /\ calls[r][2].op = "update"

FailResp(call) ==
  IF call.op = "insert"
  THEN [status |-> StatusInternalServerError, msg |-> "Creating failed",
        count |-> Len(call.ops), err |-> call.err]
  ELSE [status |-> StatusInternalServerError, msg |-> "Updating failed",
        name |-> call.ops[1].name, err |-> call.err]

(* the effect of successful call i of request r is in the store *)
StillApplied(r, i) ==
  LET c == calls[r][i]
      rows == store[req[r].kind]
  IN \A k \in DOMAIN c.ops :
       LET op == c.ops[k]
       IN /\ op.name \in DOMAIN rows
          /\ IF c.op = "insert"
             THEN rows[op.name].type = op.type /\ rows[op.name].created_at = op.created_at
             ELSE \/ \E j \in (i + 1)..Len(calls[r]) :
                       calls[r][j].ok /\ calls[r][j].ops[1].name = op.name
                  \/ \A f \in (DOMAIN op) \ {"name"} : rows[op.name][f] = op[f]

(* C7: a failed store call is the last call of its request (nothing is     *)
(* submitted after it, and it is not submitted again), the request ends    *)
(* with a 500 that names the failed operation and carries the store's      *)
(* error, and the effects of the calls before it are still in the store.   *)
C7_FirstStoreErrorEndsBatch ==
  \A r \in Slots : \A i \in DOMAIN calls[r] :
    IF calls[r][i].ok THEN StillApplied(r, i)
    ELSE /\ i = Len(calls[r])
         /\ req[r].pc = "done"
         /\ req[r].resp = FailResp(calls[r][i])

(* the bulk insert was applied, the update after it failed, and the        *)
(* inserted rows are in the store                                          *)
C7_Witness ==
  \E r \in Slots :
    /\ Len(calls[r]) = 2
    /\ calls[r][1].op = "insert" /\ calls[r][1].ok
    /\ calls[r][2].op = "update" /\ ~calls[r][2].ok
    /\ req[r].pc = "done"
    /\ \A k \in DOMAIN calls[r][1].ops : calls[r][1].ops[k].name \in DOMAIN store[req[r].kind]

(* C8: every insert and update the request has built, and every one it has *)
(* submitted, carries the one timestamp the request read before decoding:  *)
(* inserts in created_at and updated_at, updates in updated_at.            *)
C8_OneTimestampPerRequest ==
  \A r \in Slots :
    /\ \A i \in DOMAIN req[r].inserts :
         req[r].inserts[i].created_at = req[r].now /\ req[r].inserts[i].updated_at = req[r].now
    /\ \A i \in DOMAIN req[r].updates : req[r].updates[i].updated_at = req[r].now
    /\ \A i \in DOMAIN calls[r] : \A k \in DOMAIN calls[r][i].ops :
         /\ calls[r][i].ops[k].updated_at = req[r].now
         /\ calls[r][i].op = "insert" => calls[r][i].ops[k].created_at = req[r].now

(* an insert and an update of one request, the update submitted when the   *)
(* clock showed a later second than the one the request read               *)
C8_Witness ==
  \E r \in Slots :
    /\ Len(calls[r]) = 2
    /\ calls[r][1].op = "insert" /\ calls[r][2].op = "update"
    /\ calls[r][2].at # req[r].now
    /\ calls[r][2].ops[1].updated_at = calls[r][1].ops[1].created_at

(* C9: a bulk insert that finds one of its names present fails, so of two  *)
(* requests in flight that insert the same name at most one insert         *)
(* succeeds; a failed insert ends its request with a 500 that carries the  *)
(* store's error, never a success.  (No request of this specification      *)
(* deletes.)                                                               *)
C9_InsertRaceSurfaced ==
  /\ \A r \in Slots : \A i \in DOMAIN calls[r] :
       calls[r][i].op = "insert"
       => /\ calls[r][i].existed # {} => ~calls[r][i].ok
          /\ ~calls[r][i].ok
             => /\ i = Len(calls[r])
                /\ req[r].pc = "done"
                /\ req[r].resp = FailResp(calls[r][i])
  /\ \A r1, r2 \in Slots :
       (r1 # r2 /\ req[r1].kind = req[r2].kind)
       => \A i \in DOMAIN calls[r1], j \in DOMAIN calls[r2] :
            ( /\ calls[r1][i].op = "insert" /\ calls[r2][j].op = "insert"
              /\ OpNames(calls[r1][i].ops) \cap OpNames(calls[r2][j].ops) # {} )
            => ~(calls[r1][i].ok /\ calls[r2][j].ok)

(* two requests listed before either inserted, both took the same new name *)
(* for an insert, one insert went through and the other request ended with *)
(* the store's uniqueness error                                            *)
C9_Witness ==
  \E r1, r2 \in Slots :
    /\ r1 # r2
    /\ req[r1].kind = req[r2].kind
    /\ DOMAIN req[r1].existingTypes = {} /\ DOMAIN req[r2].existingTypes = {}
    /\ Len(calls[r1]) = 1 /\ calls[r1][1].op = "insert" /\ calls[r1][1].ok
    /\ Len(calls[r2]) = 1 /\ calls[r2][1].op = "insert" /\ ~calls[r2][1].ok
    /\ OpNames(calls[r1][1].ops) \cap OpNames(calls[r2][1].ops) # {}
    /\ req[r2].resp.status = StatusInternalServerError
    /\ req[r2].resp.err = UniquenessViolation

(* the step is an Update call of some request *)
UpdateStep ==
  \E r \in Slots :
    /\ Len(calls'[r]) = Len(calls[r]) + 1
    /\ calls'[r][Len(calls'[r])].op = "update"

(* C10: no step changes the type or created_at of a resource that exists   *)
(* before and after it, or the columns it has; an Update call neither adds *)
(* nor removes a name.  So a stored type is the type of the insert.        *)
C10_UpdateKeepsTypeAndCreatedAt ==
  [][/\ \A k \in Kinds : \A n \in DOMAIN store[k] \cap DOMAIN store'[k] :
          /\ store'[k][n].type = store[k][n].type
          /\ store'[k][n].created_at = store[k][n].created_at
          /\ DOMAIN store'[k][n] = DOMAIN store[k][n]
     /\ UpdateStep => \A k \in Kinds : DOMAIN store'[k] = DOMAIN store[k]]_vars

(* an exporter row updated in a later second than the one of its insert    *)
C10_Witness ==
  \E k \in Kinds : \E n \in DOMAIN store[k] :
    /\ store[k][n].updated_at # store[k][n].created_at
    /\ k = "exporter"

----------------------------------------------------------------------------
(* The helper functions called on their own: validateCredValue on a        *)
(* credential type and value, recurseMapStringKeys on a document tree.     *)

MaxSeqLen == 2      \* elements of a sequence node of a document tree

EvalValidate ==
  /\ eval.fn = "validateCredValue"
  /\ eval.pc = "call"
  /\ eval' = [eval EXCEPT !.pc = "ret",
                          !.out = validateCredValue(eval.credName, eval.credType,
                                                    eval.credValue)]
  /\ UNCHANGED <<store, clock, req, calls, nreq, issued>>

EvalRecurse ==
  /\ eval.fn = "recurseMapStringKeys"
  /\ eval.pc = "call"
  /\ eval' = [eval EXCEPT !.pc = "ret", !.out = recurseMapStringKeys(eval.in)]
  /\ UNCHANGED <<store, clock, req, calls, nreq, issued>>

(* credential values: every mapping from some of four keys to four values, *)
(* and values that are not mappings                                        *)
EvalCredKeys ==
  {Str("AWS_ACCESS_KEY_ID"), Str("AWS_SECRET_ACCESS_KEY"), Str("EXTRA"), Num(1)}

EvalCredFields == {Str("A"), Str("B"), Num(1), Nil}

EvalCredValues ==
  {MapOf(kv) : kv \in UNION {[K -> EvalCredFields] : K \in SUBSET EvalCredKeys}}
  \cup {Str(GoodJSONText), Str("{}"), Str("1"), Str(BadJSONText), Str(""), Str("A"),
        Num(1), Nil, Float("NaN"), SeqOf(<<Str("A"), Str("B")>>),
        SeqOf(<<Str(GoodJSONText)>>)}

EvalCredTypes == {"aws-key", "gcp-service-account", "", "azure", "AWS-KEY", "gcp"}

(* document trees: scalars, sequences and mappings nested two deep, and    *)
(* each of these once more inside a mapping or a sequence                  *)
EvalScalars == {Str("x"), Num(1)}

EvalTreeKeys == {Str("k"), Num(1)}

EvalLayer(T) ==
  EvalScalars
  \cup {SeqOf(items) : items \in UNION {[1..n -> T] : n \in 0..MaxSeqLen}}
  \cup {MapOf(kv) : kv \in UNION {[K -> T] : K \in SUBSET EvalTreeKeys}}

EvalTrees ==
  LET T2 == EvalLayer(EvalLayer(EvalScalars))
  IN T2 \cup {MapOf(Str("k") :> t) : t \in T2} \cup {SeqOf(<<t>>) : t \in T2}

InitEval ==
  /\ store = [k \in Kinds |-> <<>>]
  /\ clock = 0
  /\ req = [r \in Slots |-> IdleReq]
  /\ calls = [r \in Slots |-> <<>>]
  /\ nreq = 0
  /\ issued = [r \in Slots |-> <<>>]
  /\ \/ \E credType \in EvalCredTypes, credValue \in EvalCredValues :
          eval = [fn |-> "validateCredValue", pc |-> "call", credName |-> "c1",
                  credType |-> credType, credValue |-> credValue, out |-> Nil]
     \/ \E in \in EvalTrees :
          eval = [fn |-> "recurseMapStringKeys", pc |-> "call", in |-> in, out |-> Nil]

NextEval == EvalValidate \/ EvalRecurse

SpecEval == InitEval /\ [][NextEval]_vars

(* the calls of validateCredValue that have returned *)
Validated == eval.fn = "validateCredValue" /\ eval.pc = "ret"

(* a mapping of exactly the two AWS keys, both with string values *)
AwsShape(v) ==
  /\ v.tag = "map"
  /\ DOMAIN v.kv = {Str("AWS_ACCESS_KEY_ID"), Str("AWS_SECRET_ACCESS_KEY")}
  /\ \A k \in DOMAIN v.kv : v.kv[k].tag = "str"

ShapeErrors ==
  {"expected credential value to contain YAML string fields: AWS_ACCESS_KEY_ID and AWS_SECRET_ACCESS_KEY",
   "expected credential value to be a JSON string",
   "credential value is not a valid JSON string"}

UnsupportedType == "unsupported credential type (expected aws-key or gcp-service-account)"

(* C11: validateCredValue for type aws-key succeeds exactly when the value *)
(* is a mapping with exactly the two entries AWS_ACCESS_KEY_ID and         *)
(* AWS_SECRET_ACCESS_KEY, both strings; the result is then a JSON object   *)
(* with exactly those two fields holding the submitted strings; every      *)
(* other value is a shape error.                                           *)
C11_AwsKeyShape ==
  (Validated /\ eval.credType = "aws-key")
  => /\ eval.out.ok <=> AwsShape(eval.credValue)
     /\ eval.out.ok
        => /\ eval.out.val.json = "object"
           /\ DOMAIN eval.out.val.members = {"AWS_ACCESS_KEY_ID", "AWS_SECRET_ACCESS_KEY"}
           /\ \A f \in DOMAIN eval.out.val.members :
                eval.out.val.members[f] = JStr(eval.credValue.kv[Str(f)].v)
     /\ ~eval.out.ok => eval.out.msg \in ShapeErrors

(* a value with the two keys and a third one was refused, with the reason  *)
(* "wrong size"                                                            *)
C11_Witness ==
  /\ Validated /\ eval.credType = "aws-key"
  /\ eval.credValue.tag = "map"
  /\ Cardinality(DOMAIN eval.credValue.kv) = 3
  /\ {Str("AWS_ACCESS_KEY_ID"), Str("AWS_SECRET_ACCESS_KEY")} \subseteq DOMAIN eval.credValue.kv
  /\ \A k \in DOMAIN eval.credValue.kv : eval.credValue.kv[k].tag = "str"
  /\ ~eval.out.ok /\ eval.out.why = "wrong size"

(* C12: for type gcp-service-account validateCredValue succeeds exactly    *)
(* when the value is one string that is well-formed JSON, and then returns *)
(* that string unchanged; otherwise it is a shape error.  For every type   *)
(* other than aws-key and gcp-service-account it fails with the            *)
(* unsupported-type error, whatever the value.                             *)
C12_GcpAndUnsupported ==
  Validated
  => /\ eval.credType = "gcp-service-account"
        => /\ eval.out.ok <=> (eval.credValue.tag = "str" /\ jsonValid(eval.credValue.v))
           /\ eval.out.ok => eval.out.val = JRaw(eval.credValue.v)
           /\ ~eval.out.ok => eval.out.msg \in ShapeErrors
     /\ eval.credType \notin {"aws-key", "gcp-service-account"}
        => ~eval.out.ok /\ eval.out.msg = UnsupportedType

(* a value that would pass as an aws-key was refused for a type the switch *)
(* does not know                                                           *)
C12_Witness ==
  /\ Validated
  /\ eval.credType = "AWS-KEY"
  /\ AwsShape(eval.credValue)
  /\ eval.out.msg = UnsupportedType

(* the service-account key came back as it was submitted *)
C12_WitnessGcp ==
  /\ Validated
  /\ eval.credType = "gcp-service-account"
  /\ eval.out.ok /\ eval.out.val.text = GoodJSONText

(* some mapping of the tree, at any depth, has a key that is not a string *)
RECURSIVE HasNonStringKey(_)
HasNonStringKey(t) ==
  CASE t.tag = "map" -> \/ \E k \in DOMAIN t.kv : k.tag # "str"
                        \/ \E k \in DOMAIN t.kv : HasNonStringKey(t.kv[k])
    [] t.tag = "seq" -> \E i \in DOMAIN t.items : HasNonStringKey(t.items[i])
    [] OTHER -> FALSE

(* out is the tree in with the keys of every mapping as plain strings *)
RECURSIVE SameShape(_, _)
SameShape(in, out) ==
  CASE in.tag = "map" ->
         /\ out.tag = "strmap"
         /\ DOMAIN out.kv = {k.v : k \in DOMAIN in.kv}
         /\ \A k \in DOMAIN in.kv : SameShape(in.kv[k], out.kv[k.v])
    [] in.tag = "seq" ->
         /\ out.tag = "seq"
         /\ Len(out.items) = Len(in.items)
         /\ \A i \in DOMAIN in.items : SameShape(in.items[i], out.items[i])
    [] OTHER -> out = in

(* nesting depth of a tree *)
RECURSIVE Depth(_)
Depth(t) ==
  LET Max(S) == IF S = {} THEN 0 ELSE CHOOSE m \in S : \A x \in S : x <= m
  IN CASE t.tag = "map" -> 1 + Max({Depth(t.kv[k]) : k \in DOMAIN t.kv})
       [] t.tag = "seq" -> 1 + Max({Depth(t.items[i]) : i \in DOMAIN t.items})
       [] OTHER -> 0

Recursed == eval.fn = "recurseMapStringKeys" /\ eval.pc = "ret"

(* C16: recurseMapStringKeys fails, with the keys-must-be-strings error,   *)
(* exactly when some mapping at some depth of the tree has a key that is   *)
(* not a string; otherwise the result has the structure of the input, each *)
(* mapping keyed by strings, sequence elements in their order and scalars  *)
(* unchanged.                                                              *)
C16_StringKeysOrError ==
  Recursed
  => /\ eval.out.ok <=> ~HasNonStringKey(eval.in)
     /\ eval.out.ok => SameShape(eval.in, eval.out.val)
     /\ ~eval.out.ok => eval.out = KeyErr

(* a tree three deep, a mapping in a sequence in a mapping, refused for a   *)
(* key of the innermost mapping only                                       *)
C16_Witness ==
  /\ Recursed
  /\ ~eval.out.ok
  /\ Depth(eval.in) = 3
  /\ eval.in.tag = "map"
  /\ \A k \in DOMAIN eval.in.kv :
       /\ k.tag = "str"
       /\ eval.in.kv[k].tag = "seq"
       /\ \A i \in DOMAIN eval.in.kv[k].items :
            /\ eval.in.kv[k].items[i].tag = "map"
            /\ \E kk \in DOMAIN eval.in.kv[k].items[i].kv : kk.tag # "str"

(* a tree three deep converted, with a sequence of two different elements  *)
C16_WitnessOk ==
  /\ Recursed
  /\ eval.out.ok
  /\ Depth(eval.in) = 3
  /\ eval.in.tag = "map"
  /\ \E k \in DOMAIN eval.out.val.kv :
       /\ eval.out.val.kv[k].tag = "seq"
       /\ Len(eval.out.val.kv[k].items) = 2
       /\ eval.out.val.kv[k].items[1].tag = "strmap"
       /\ eval.out.val.kv[k].items[2].tag = "int"

----------------------------------------------------------------------------
(* One request at a time, of any handler of one endpoint: writes with few  *)
(* bodies, lists, gets and deletes                                         *)

NextRead ==
  \/ \E kind \in Kinds, hdr \in Headers, f \in BOOLEAN :
        (req[1].pc = "idle" \/ kind = req[1].kind) /\ WriteBegin(1, kind, hdr, f)
  \/ \E body \in ConcBodiesOf(req[1].kind) : WriteDecode(1, body)
  \/ \E f \in BOOLEAN : WriteInsert(1, f)
  \/ \E f \in BOOLEAN : WriteUpdate(1, f)
  \/ \E kind \in Kinds, hdr \in Headers, f \in BOOLEAN :
        (req[1].pc = "idle" \/ kind = req[1].kind) /\ List(1, kind, hdr, f)
  \/ \E kind \in Kinds, hdr \in Headers, name \in Names, f \in BOOLEAN :
        (req[1].pc = "idle" \/ kind = req[1].kind) /\ Get(1, kind, hdr, name, f)
  \/ \E kind \in Kinds, hdr \in Headers, name \in Names, f \in BOOLEAN :
        (req[1].pc = "idle" \/ kind = req[1].kind) /\ Delete(1, kind, hdr, name, f)
  \/ Tick

SpecRead == Init /\ [][NextRead]_vars

(* the tables that differ from rows in the stored values only *)
AltValues == {JRaw("{}"), JObj("AWS_ACCESS_KEY_ID" :> JStr("X") @@ "AWS_SECRET_ACCESS_KEY" :> JStr("Y"))}

AltRows(rows) ==
  {[n \in DOMAIN rows |-> [rows[n] EXCEPT !.value = alt[n]]] : alt \in [DOMAIN rows -> AltValues]}

(* the answer of the handler of a one-step request on the table rows *)
AnswerOn(rq, rows) ==
  LET tenant == getTenant(rq.hdr)
      failed == rq.resp.status = StatusInternalServerError
  IN CASE rq.op = "list" -> listResp(rq.kind, tenant, storeList(rows, failed))
       [] rq.op = "get" -> getResp(rq.kind, tenant, rq.name, storeGet(rows, rq.name, failed))
       [] rq.op = "delete" ->
            deleteResp(rq.kind, tenant, rq.name, storeDelete(rows, rq.name, failed))

(* no Info of the answer has a value field *)
NoValueField(rq) ==
  "body" \in DOMAIN rq.resp
  => IF rq.op = "list" THEN \A info \in rq.resp.body : "value" \notin DOMAIN info
     ELSE "value" \notin DOMAIN rq.resp.body

(* C13: the answer of a list, get or delete of credentials has no value    *)
(* field, and it is the answer the handler gives on every store that       *)
(* differs from the one it read in the stored credential values only.      *)
C13_NoSecretInResponses ==
  [][\A r \in Slots :
       (req'[r] # req[r] /\ req'[r].kind = "credential"
        /\ req'[r].op \in {"list", "get", "delete"})
       => /\ NoValueField(req'[r])
          /\ \A rows \in AltRows(store["credential"]) : req'[r].resp = AnswerOn(req'[r], rows)]_vars

(* a list of two stored credentials, answered with their two Infos *)
C13_Witness ==
  \E r \in Slots :
    /\ req[r].kind = "credential" /\ req[r].op = "list"
    /\ req[r].resp.status = StatusOK
    /\ Cardinality(req[r].resp.body) = 2
    /\ Cardinality(DOMAIN store["credential"]) = 2

(* a get of a stored credential answered with its Info *)
C13_WitnessGet ==
  \E r \in Slots :
    /\ req[r].kind = "credential" /\ req[r].op = "get"
    /\ req[r].resp.status = StatusOK
    /\ req[r].resp.body.type = "aws-key"

(* C14: a Delete that did not fail and found no resource of that name is   *)
(* answered 404 not found, a Delete that failed is answered 500 with the   *)
(* store's error, and 404 is the answer in the first case only; in both    *)
(* cases the resources of the tenant are as before.  For credentials and   *)
(* for exporters.                                                          *)
C14_DeleteNotFound ==
  [][\A r \in Slots :
       (req'[r] # req[r] /\ req'[r].op = "delete" /\ calls'[r] # <<>>)
       => LET rq == req'[r]
              c == calls'[r][1]
          IN /\ (c.ok /\ c.existed = {})
                => /\ rq.resp = [status |-> StatusNotFound, msg |-> "not found",
                                 kind |-> rq.kind, name |-> rq.name]
                   /\ store' = store
             /\ ~c.ok
                => /\ rq.resp.status = StatusInternalServerError
                   /\ rq.resp.err = c.err
                   /\ store' = store
             /\ rq.resp.status = StatusNotFound <=> (c.ok /\ c.existed = {})
             /\ (c.ok /\ c.existed # {})
                => /\ rq.resp.status = StatusOK
                   /\ DOMAIN store'[rq.kind] = (DOMAIN store[rq.kind]) \ {rq.name}]_vars

(* an exporter that is not there was deleted, answered 404, and the        *)
(* exporter that is there stayed                                           *)
C14_Witness ==
  \E r \in Slots :
    /\ req[r].op = "delete" /\ req[r].kind = "exporter"
    /\ req[r].resp.status = StatusNotFound
    /\ Len(calls[r]) = 1 /\ calls[r][1].ok
    /\ req[r].name \notin DOMAIN store["exporter"]
    /\ DOMAIN store["exporter"] # {}

(* the first store operation of a handler *)
FirstOp(op) == IF op = "write" THEN "list" ELSE op

(* C15: a request whose X-Scope-Orgid header has no value, more than one   *)
(* value or one empty value is answered 400 and has sent no store          *)
(* operation (no list, get, insert, update or delete); a request with      *)
(* exactly one non-empty value goes on to its first store operation.       *)
C15_TenantHeader ==
  \A r \in Slots :
    req[r].pc # "idle"
    => LET hdr == req[r].hdr
           one == Len(hdr) = 1 /\ hdr[1] # ""
       IN /\ ~one => /\ issued[r] = <<>>
                     /\ calls[r] = <<>>
                     /\ req[r].pc = "done"
                     /\ req[r].resp.status = StatusBadRequest
          /\ one => issued[r] # <<>> /\ issued[r][1] = FirstOp(req[r].op)

(* a delete with two tenant values, refused while the named resource is    *)
(* in the store                                                            *)
C15_Witness ==
  \E r \in Slots :
    /\ req[r].op = "delete"
    /\ Len(req[r].hdr) = 2
    /\ req[r].resp.status = StatusBadRequest
    /\ req[r].name \in DOMAIN store[req[r].kind]

(* the names of a sequence of documents or operations, in order *)
NamesOf(seq) == [i \in DOMAIN seq |-> seq[i].name]

(* C17: the body of a write request that passed validation yields one      *)
(* operation per document; the updates are the documents whose name is in  *)
(* the set listed at the start of the request and the inserts are the      *)
(* others, each in body order, whatever the documents before them were: no *)
(* name is in both lists, a name that is not in the listed set and comes   *)
(* twice is inserted twice, and all inserts go in the one bulk Insert.     *)
C17_ClassifiedBySnapshot ==
  \A r \in Slots :
    LET rq == req[r]
        listed(d) == d.name \in DOMAIN rq.existingTypes
        new(d) == d.name \notin DOMAIN rq.existingTypes
    IN (rq.op = "write" /\ Len(rq.inserts) + Len(rq.updates) > 0)
       => /\ Len(rq.inserts) + Len(rq.updates) = Len(rq.body)
          /\ NamesOf(rq.updates) = NamesOf(SelectSeq(rq.body, listed))
          /\ NamesOf(rq.inserts) = NamesOf(SelectSeq(rq.body, new))
          /\ OpNames(rq.inserts) \cap OpNames(rq.updates) = {}
          /\ \A i \in DOMAIN calls[r] :
               calls[r][i].op = "insert" => i = 1 /\ calls[r][i].ops = rq.inserts

(* a body of two documents with the same new name: two inserts, sent in    *)
(* one bulk Insert                                                         *)
C17_Witness ==
  \E r \in Slots :
    /\ Len(req[r].inserts) = 2 /\ req[r].updates = <<>>
    /\ Len(req[r].body) = 2
    /\ req[r].body[1].name = req[r].body[2].name
    /\ req[r].body[1].name \notin DOMAIN req[r].existingTypes
    /\ calls[r] # <<>> /\ calls[r][1].op = "insert" /\ Len(calls[r][1].ops) = 2

----------------------------------------------------------------------------
(* Credential writes and deletes of one tenant in flight at once, starting *)
(* with the credential a of type aws-key in the store                      *)

DelCredDocs ==
  {CredentialDoc("a", "aws-key", AwsValue2),
   CredentialDoc("a", "gcp-service-account", GcpValue)}

(* the row an earlier write of {name: a, type: aws-key, value: AwsValue}   *)
(* at second 0 leaves in the store                                         *)
StoredA ==
  RowOf(CredentialInsertInput("a", "aws-key",
                              validateCredValue("a", "aws-key", AwsValue).val, 0))

InitDel ==
  /\ store = [k \in Kinds |-> IF k = "credential" THEN "a" :> StoredA ELSE <<>>]
  /\ clock = 0
  /\ req = [r \in Slots |-> IdleReq]
  /\ calls = [r \in Slots |-> <<>>]
  /\ nreq = 0
  /\ issued = [r \in Slots |-> <<>>]
  /\ eval = NoEval

NextDel ==
  \/ \E r \in Slots : WriteBegin(r, "credential", <<"t1">>, FALSE)
  \/ \E r \in Slots : \E body \in Bodies(DelCredDocs) : WriteDecode(r, body)
  \/ \E r \in Slots, f \in BOOLEAN : WriteInsert(r, f)
  \/ \E r \in Slots, f \in BOOLEAN : WriteUpdate(r, f)
  \/ \E r \in Slots, f \in BOOLEAN : Delete(r, "credential", <<"t1">>, "a", f)

SpecDel == InitDel /\ [][NextDel]_vars

(* C18: when an Update call of a credential write request changes a stored *)
(* credential, the type the request listed for that name at its start, the *)
(* one its value was checked against, is the type the stored credential    *)
(* has at that moment, and the value written is valid for it.              *)
C18_UpdateValidatedForStoredType ==
  [][\A r \in Slots :
       ( /\ Len(calls'[r]) = Len(calls[r]) + 1
         /\ calls'[r][Len(calls'[r])].op = "update"
         /\ calls'[r][Len(calls'[r])].ok
         /\ calls'[r][Len(calls'[r])].existed # {} )
       => LET op == calls'[r][Len(calls'[r])].ops[1]
              stored == store["credential"][op.name]
              doc == req[r].body[CHOOSE i \in DOMAIN req[r].body :
                                    req[r].body[i].name = op.name
                                    /\ validateCredValue(op.name, req[r].body[i].type,
                                                         req[r].body[i].value).val = op.value]
          IN /\ req[r].existingTypes[op.name] = stored.type
             /\ validateCredValue(op.name, stored.type, doc.value).ok]_vars

(* an Update call of a write request has changed a stored credential *)
C18_UpdateApplied ==
  \E r \in Slots :
    /\ calls[r] # <<>>
    /\ calls[r][Len(calls[r])].op = "update"
    /\ calls[r][Len(calls[r])].ok
    /\ calls[r][Len(calls[r])].existed # {}

====
